---------------------------- MODULE Spec2Model ----------------------------
(***************************************************************************)
(* A model of the First-RAG-App retrieval core: the document chunker       *)
(* (DocumentProcessor), the in-memory vector store (SimpleVectorStore),    *)
(* the embedding fan-out (EmbeddingService), the answer generator with its *)
(* fallback (TextGenerator), the orchestrator (RAGSystem) and the HTTP     *)
(* routes that reach it.                                                   *)
(*                                                                         *)
(* A string is a sequence of pieces: one-character strings where the code  *)
(* looks at characters (cleaning, chunking, previews), and the literal     *)
(* pieces of the code's template strings elsewhere; the empty string is    *)
(* <<>>. String positions are 0-based as in JavaScript and converted on    *)
(* access.                                                                 *)
(***************************************************************************)
EXTENDS Integers, Sequences, FiniteSets, TLC

VARIABLES
    documents,      \* SimpleVectorStore.documents
    embeddings,     \* SimpleVectorStore.embeddings
    metadata,       \* SimpleVectorStore.metadata
    chunkSize,      \* DocumentProcessor.chunkSize
    chunkOverlap,   \* DocumentProcessor.chunkOverlap
    genTopK,        \* TextGenerator.topK (written by RAGSystem.setTopK only)
    ingest,         \* the addDocument operations in flight, one per slot
    ask,            \* the askQuestion operations in flight, one per slot
    hung,           \* the event loop is stuck in a chunkText that never returns
    storeCall,      \* the last direct call of the store's API and what it returned
    ctext,          \* chunkText: its argument text
    start,          \* chunkText: the local start
    chunks,         \* chunkText: the local chunks
    visited,        \* chunkText: the values start has had at earlier iterations
    cuts,           \* chunkText: the start and end of each iteration so far
    cpc             \* chunkText: position ("enter", "loop", "done", "diverged")

vars == <<documents, embeddings, metadata, chunkSize, chunkOverlap, genTopK,
          ingest, ask, hung, storeCall, ctext, start, chunks, visited, cuts,
          cpc>>

storeVars == <<documents, embeddings, metadata>>
configVars == <<chunkSize, chunkOverlap, genTopK>>
sessionVars == <<ingest, ask, hung>>
chunkVars == <<ctext, start, chunks, visited, cuts, cpc>>

-----------------------------------------------------------------------------
(* Bounds of the model.                                                    *)

\* longest text handed to chunkText when it is checked on its own
MaxTextLen == 6
\* largest chunk size (and overlap) chunkText is checked with on its own
MaxChunkCfg == 4
\* most entries the session's store holds
MaxDocs == 2
\* most entries the store holds in a session of overlapping uploads
MaxShared == 3

\* the chunk size and overlap DocumentProcessor's constructor sets
DefaultChunkSize == 500
DefaultChunkOverlap == 50

\* An optional value: <<>> for undefined, <<v>> for the value v.
Absent == <<>>
Given(v) == <<v>>

Max2(a, b) == IF a >= b THEN a ELSE b
Min2(a, b) == IF a <= b THEN a ELSE b
MaxOf(S) == CHOOSE x \in S : \A y \in S : y <= x

-----------------------------------------------------------------------------
(* JavaScript string primitives.                                           *)

Whitespace == {" ", "\n"}

\* String.prototype.lastIndexOf(ch, from): the last position <= from (clamped
\* to [0, length-1]) holding ch, or -1.
LastIndexOf(text, ch, from) ==
    LET n == Len(text)
        f == Min2(Max2(from, 0), n - 1)
        hits == {i \in 0..f : text[i + 1] = ch}
    IN IF hits = {} THEN -1 ELSE MaxOf(hits)

\* String.prototype.slice(from, to): a negative index counts from the end.
Slice(text, from, to) ==
    LET n == Len(text)
        f == IF from < 0 THEN Max2(n + from, 0) ELSE Min2(from, n)
        t == IF to < 0 THEN Max2(n + to, 0) ELSE Min2(to, n)
    IN IF f >= t THEN <<>> ELSE SubSeq(text, f + 1, t)

\* String.prototype.trim()
Trim(text) ==
    LET keep == {i \in 1..Len(text) : text[i] \notin Whitespace}
    IN IF keep = {} THEN <<>>
       ELSE SubSeq(text, CHOOSE i \in keep : \A j \in keep : i <= j, MaxOf(keep))

\* text.replace(/\s+/g, ' '): every run of whitespace becomes one space.
CollapseWs(text) ==
    LET keep == {i \in 1..Len(text) :
                    text[i] \notin Whitespace
                    \/ i = 1 \/ text[i - 1] \notin Whitespace}
        at(j) == CHOOSE i \in keep : Cardinality({k \in keep : k <= i}) = j
    IN [j \in 1..Cardinality(keep) |->
            IF text[at(j)] \in Whitespace THEN " " ELSE text[at(j)]]

\* DocumentProcessor.cleanText; after the first replace no newline is left, so
\* the second replace (/\n\s*\n/g) changes nothing.
cleanText(text) == Trim(CollapseWs(text))

-----------------------------------------------------------------------------
(* SimpleVectorStore                                                       *)

\* The store's three parallel arrays as one value.
Store == [documents |-> documents, embeddings |-> embeddings,
          metadata |-> metadata]

EmptyStore == [documents |-> <<>>, embeddings |-> <<>>, metadata |-> <<>>]

\* { id: n, ...metadata }: the spread written after id, so a caller's id wins.
WithIdCallerWins(md, n) ==
    [k \in DOMAIN md \cup {"id"} |-> IF k \in DOMAIN md THEN md[k] ELSE n]

\* { ...metadata, id: n }: the caller's fields, then id written over them.
\* (timestamp, a reading of the wall clock that nothing reads back, is left out.)
WithId(md, n) ==
    [k \in DOMAIN md \cup {"id"} |-> IF k = "id" THEN n ELSE md[k]]

\* An addDocument that numbers an entry by its chunk instead of its position
addDocumentIdOfChunk(st, text, embedding, md) ==
    [documents |-> Append(st.documents, text),
     embeddings |-> Append(st.embeddings, embedding),
     metadata |-> Append(st.metadata, WithId(md, md.chunkIndex))]

\* SimpleVectorStore.addDocument(text, embedding, metadata)
addDocument(st, text, embedding, md) ==
    LET docs == Append(st.documents, text)
    IN [documents |-> docs,
        embeddings |-> Append(st.embeddings, embedding),
        metadata |-> Append(st.metadata, WithId(md, Len(docs) - 1))]

\* A clear that leaves the arrays as they are
clearNothing == Store

\* SimpleVectorStore.clear()
clear == EmptyStore

\* SimpleVectorStore.getAllDocuments()
getAllDocuments(st) ==
    [i \in 1..Len(st.documents) |->
        [index |-> i - 1,
         text |-> st.documents[i],
         embedding |-> st.embeddings[i],
         metadata |-> st.metadata[i]]]

\* SimpleVectorStore.getDocumentCount()
getDocumentCount(st) == Len(st.documents)

RECURSIVE SumOver(_, _)
SumOver(f, n) == IF n = 0 THEN 0 ELSE f[n] + SumOver(f, n - 1)

Abs(x) == IF x < 0 THEN -x ELSE x

MismatchMsg == "Vectors must be of the same length"

\* A cosineSimilarity without the test of the lengths, over the shared prefix
cosineSimilarityNoCheck(vecA, vecB) ==
    LET n == Min2(Len(vecA), Len(vecB))
        dotProduct == SumOver([i \in 1..n |-> vecA[i] * vecB[i]], n)
        normA == SumOver([i \in 1..n |-> vecA[i] * vecA[i]], n)
        normB == SumOver([i \in 1..n |-> vecB[i] * vecB[i]], n)
    IN IF normA = 0 \/ normB = 0
       THEN [threw |-> FALSE, num |-> 0, den2 |-> 1]
       ELSE [threw |-> FALSE, num |-> dotProduct, den2 |-> normA * normB]

\* SimpleVectorStore.cosineSimilarity(vecA, vecB). The value
\* dotProduct / (sqrt(normA) * sqrt(normB)) is kept exactly, as the pair
\* (num, den2) standing for num / sqrt(den2); 0 when a norm is 0.
cosineSimilarity(vecA, vecB) ==
    IF Len(vecA) # Len(vecB)
    THEN [threw |-> TRUE, error |-> MismatchMsg]
    ELSE LET n == Len(vecA)
             dotProduct == SumOver([i \in 1..n |-> vecA[i] * vecB[i]], n)
             normA == SumOver([i \in 1..n |-> vecA[i] * vecA[i]], n)
             normB == SumOver([i \in 1..n |-> vecB[i] * vecB[i]], n)
         IN IF normA = 0 \/ normB = 0
            THEN [threw |-> FALSE, num |-> 0, den2 |-> 1]
            ELSE [threw |-> FALSE, num |-> dotProduct, den2 |-> normA * normB]

\* The order of two similarity values: x / sqrt(p) against y / sqrt(q),
\* decided on the signed squares x|x|/p and y|y|/q.
SimKey(s, other) == s.num * Abs(s.num) * other.den2
SimGreater(s, t) == SimKey(s, t) > SimKey(t, s)
SimEqual(s, t) == SimKey(s, t) = SimKey(t, s)

\* A sort that is not stable: an element goes in front of its equals.
InsertDescUnstable(sorted, x) ==
    LET notGreater == {i \in 1..Len(sorted) :
                          ~SimGreater(sorted[i].similarity, x.similarity)}
        at == IF notGreater = {} THEN Len(sorted) + 1
              ELSE CHOOSE i \in notGreater : \A j \in notGreater : i <= j
    IN SubSeq(sorted, 1, at - 1) \o <<x>> \o SubSeq(sorted, at, Len(sorted))

\* Array.prototype.sort((a, b) => b.similarity - a.similarity): a stable sort,
\* so an element goes in front of the first one of strictly smaller similarity.
InsertDesc(sorted, x) ==
    LET smaller == {i \in 1..Len(sorted) :
                        SimGreater(x.similarity, sorted[i].similarity)}
        at == IF smaller = {} THEN Len(sorted) + 1
              ELSE CHOOSE i \in smaller : \A j \in smaller : i <= j
    IN SubSeq(sorted, 1, at - 1) \o <<x>> \o SubSeq(sorted, at, Len(sorted))

RECURSIVE SortDesc(_)
SortDesc(seq) ==
    IF seq = <<>> THEN <<>>
    ELSE InsertDesc(SortDesc(SubSeq(seq, 1, Len(seq) - 1)), seq[Len(seq)])

\* The default of search's parameter topK
DefaultTopK == 3

\* SimpleVectorStore.search(queryEmbedding, topK = 3)
search(st, queryEmbedding, topK) ==
    LET n == Len(st.embeddings)
        k == IF topK = Absent THEN DefaultTopK ELSE topK[1]
        sims == [i \in 1..n |-> cosineSimilarity(queryEmbedding, st.embeddings[i])]
    IN IF n = 0 THEN [threw |-> FALSE, results |-> <<>>]
       ELSE IF \E i \in 1..n : sims[i].threw
       THEN [threw |-> TRUE, error |-> MismatchMsg]
       ELSE LET similarities ==
                    [i \in 1..n |->
                        [index |-> i - 1,
                         similarity |-> [num |-> sims[i].num, den2 |-> sims[i].den2],
                         document |-> st.documents[i],
                         metadata |-> st.metadata[i]]]
            IN [threw |-> FALSE,
                results |-> Slice(SortDesc(similarities), 0, k)]

(* The store driven through its own interface.                             *)

\* most entries the store holds when it is driven on its own
MaxEntries == 3

\* what callers insert: a text with its embedding (one of another dimension)
StoreItems ==
    {[text |-> <<"a">>, embedding |-> <<1, 0>>],
     [text |-> <<"b">>, embedding |-> <<1, 1>>],
     [text |-> <<"a">>, embedding |-> <<-1, 0>>],
     [text |-> <<"b">>, embedding |-> <<0, 0>>],
     [text |-> <<"a">>, embedding |-> <<1>>]}
StoreQueries == {<<1, 0>>, <<0, 1>>, <<0, 0>>, <<1>>}
StoreTopKs == {Given(k) : k \in -1..(MaxEntries + 1)} \cup {Absent}
\* what a caller passes as metadata: with or without an id of its own
CallerMetadata == {[chunkIndex |-> 0], [chunkIndex |-> 0, id |-> 7]}

IdleChunker ==
    /\ ctext = <<>> /\ start = 0 /\ chunks = <<>> /\ visited = {}
    /\ cuts = <<>>
    /\ cpc = "done"

InitStore ==
    /\ documents = <<>> /\ embeddings = <<>> /\ metadata = <<>>
    /\ chunkSize = DefaultChunkSize /\ chunkOverlap = DefaultChunkOverlap
    /\ genTopK = Absent
    /\ ingest = <<>> /\ ask = <<>> /\ hung = FALSE
    /\ storeCall = [op |-> "none"]
    /\ IdleChunker

StoreInsert(text, embedding, md) ==
    /\ Len(documents) < MaxEntries
    /\ LET st == addDocument(Store, text, embedding, md)
       IN /\ documents' = st.documents
          /\ embeddings' = st.embeddings
          /\ metadata' = st.metadata
    /\ storeCall' = [op |-> "insert", md |-> md,
                     afterClear |-> storeCall.op = "clear"]
    /\ UNCHANGED <<configVars, sessionVars, chunkVars>>

StoreSearch(queryEmbedding, topK) ==
    /\ storeCall' = [op |-> "search",
                     query |-> queryEmbedding, topK |-> topK,
                     ret |-> search(Store, queryEmbedding, topK)]
    /\ UNCHANGED <<storeVars, configVars, sessionVars, chunkVars>>

StoreClear ==
    /\ documents' = clear.documents
    /\ embeddings' = clear.embeddings
    /\ metadata' = clear.metadata
    /\ storeCall' = [op |-> "clear", held |-> getDocumentCount(Store)]
    /\ UNCHANGED <<configVars, sessionVars, chunkVars>>

NextStore ==
    \/ \E item \in StoreItems, md \in CallerMetadata :
            StoreInsert(item.text, item.embedding, md)
    \/ \E queryEmbedding \in StoreQueries, topK \in StoreTopKs :
            StoreSearch(queryEmbedding, topK)
    \/ StoreClear

SpecStore == InitStore /\ [][NextStore]_vars

Searched == storeCall.op = "search" /\ ~storeCall.ret.threw

\* C3: search returns its results by non-increasing similarity, and entries of
\* equal similarity in their insertion order.
C3_SearchOrdered ==
    Searched =>
        LET r == storeCall.ret.results
        IN \A i, j \in 1..Len(r) :
              i < j =>
                /\ ~SimGreater(r[j].similarity, r[i].similarity)
                /\ SimEqual(r[i].similarity, r[j].similarity)
                      => r[i].index < r[j].index

\* a search that returned three results, two of them tied and two not
C3_Witness ==
    /\ Searched
    /\ LET r == storeCall.ret.results
       IN /\ Len(r) >= 3
          /\ \E i, j \in 1..Len(r) :
                i < j /\ SimEqual(r[i].similarity, r[j].similarity)
          /\ \E i, j \in 1..Len(r) :
                i < j /\ SimGreater(r[i].similarity, r[j].similarity)

\* C4: for every integer topK, 0 and negative values included, search returns
\* at most topK results (none when topK is not positive), fewer than topK only
\* when the store holds fewer than topK entries, and none on an empty store.
C4_SearchAtMostTopK ==
    (Searched /\ storeCall.topK # Absent) =>
        LET k == storeCall.topK[1]
            n == Len(storeCall.ret.results)
        IN /\ n <= Max2(k, 0)
           /\ n < k => Len(documents) < k
           /\ Len(documents) = 0 => n = 0

\* C6: every stored entry's id is its position in the store, whatever id the
\* caller's metadata carried and whether or not the store was cleared before.
C6_IdIsPosition ==
    /\ Len(metadata) = Len(documents)
    /\ Len(embeddings) = Len(documents)
    /\ \A i \in 1..Len(metadata) : metadata[i].id = i - 1

\* the first insert after a clear, by a caller whose metadata carries id 7
C6_Witness ==
    /\ storeCall.op = "insert"
    /\ storeCall.afterClear
    /\ "id" \in DOMAIN storeCall.md
    /\ storeCall.md.id = 7
    /\ Len(metadata) = 1
    /\ metadata[1].id = 0

\* C12: after clear() the store is empty whatever it held: count() is 0,
\* getAllDocuments() is empty and search returns no result for every query
\* and topK; a clear() of an empty store changes nothing.
C12_ClearEmptiesStore ==
    [][storeCall'.op = "clear" =>
        /\ getDocumentCount(Store') = 0
        /\ getAllDocuments(Store') = <<>>
        /\ \A queryEmbedding \in StoreQueries, topK \in StoreTopKs :
              search(Store', queryEmbedding, topK)
                = [threw |-> FALSE, results |-> <<>>]
        /\ getDocumentCount(Store) = 0 => UNCHANGED storeVars]_vars

\* a clear of a store that held three entries
C12_Witness ==
    /\ storeCall.op = "clear"
    /\ storeCall.held = 3
    /\ getDocumentCount(Store) = 0

-----------------------------------------------------------------------------
(* DocumentProcessor.chunkText                                             *)

\* One iteration's cut position: start + chunkSize, snapped back to just past
\* a sentence terminator or to a space found beyond half the window.
\* (b > start + chunkSize * 0.5 is compared doubled, to stay in the integers.)
CutEnd(text, cs, st) ==
    LET end == st + cs
    IN IF end < Len(text)
       THEN LET sentenceEnd == LastIndexOf(text, ".", end)
                questionEnd == LastIndexOf(text, "?", end)
                exclamationEnd == LastIndexOf(text, "!", end)
                sentenceBoundary ==
                    Max2(sentenceEnd, Max2(questionEnd, exclamationEnd))
            IN IF 2 * sentenceBoundary > 2 * st + cs
               THEN sentenceBoundary + 1
               ELSE LET wordBoundary == LastIndexOf(text, " ", end)
                    IN IF 2 * wordBoundary > 2 * st + cs
                       THEN wordBoundary
                       ELSE end
       ELSE end

\* chunks after one iteration: the trimmed slice, unless it is empty
PushChunk(cks, text, st, end) ==
    LET chunk == Trim(Slice(text, st, end))
    IN IF Len(chunk) > 0 THEN Append(cks, chunk) ELSE cks

\* The while loop from a given start. The loop's control depends on start
\* alone, so an iteration that brings start back to a value it had before
\* repeats for ever: the call never returns (diverges).
RECURSIVE ChunkLoop(_, _, _, _, _, _)
ChunkLoop(text, cs, ov, st, cks, seen) ==
    IF ~(st < Len(text)) THEN [diverges |-> FALSE, chunks |-> cks]
    ELSE IF st \in seen THEN [diverges |-> TRUE, chunks |-> cks]
    ELSE LET end == CutEnd(text, cs, st)
         IN ChunkLoop(text, cs, ov, end - ov,
                      PushChunk(cks, text, st, end), seen \cup {st})

chunkText(text, cs, ov) ==
    IF Len(text) <= cs
    THEN [diverges |-> FALSE, chunks |-> <<Trim(text)>>]
    ELSE ChunkLoop(text, cs, ov, 0, <<>>, {})

(* chunkText run one iteration at a time.                                  *)

Alphabet == {"a", " ", "."}

RECURSIVE TextsUpTo(_)
TextsUpTo(n) ==
    IF n = 0 THEN {<<>>}
    ELSE LET shorter == TextsUpTo(n - 1)
         IN shorter \cup {Append(t, c) : t \in {s \in shorter : Len(s) = n - 1},
                                            c \in Alphabet}

IdleSession ==
    /\ documents = <<>> /\ embeddings = <<>> /\ metadata = <<>>
    /\ genTopK = Absent
    /\ ingest = <<>> /\ ask = <<>>
    /\ hung = FALSE
    /\ storeCall = [op |-> "none"]

InitChunk ==
    /\ IdleSession
    /\ ctext \in TextsUpTo(MaxTextLen)
    /\ chunkSize \in 1..MaxChunkCfg
    /\ chunkOverlap \in 0..MaxChunkCfg
    /\ start = 0 /\ chunks = <<>> /\ visited = {}
    /\ cuts = <<>>
    /\ cpc = "enter"

\* chunkText up to the loop: the return for a short text, or chunks and start set
ChunkEnter ==
    /\ cpc = "enter"
    /\ IF Len(ctext) <= chunkSize
       THEN /\ chunks' = <<Trim(ctext)>>
            /\ cpc' = "done"
       ELSE /\ chunks' = <<>>
            /\ cpc' = "loop"
    /\ start' = 0
    /\ visited' = {}
    /\ cuts' = <<>>
    /\ UNCHANGED <<storeVars, configVars, sessionVars, storeCall, ctext>>

\* An iteration that moves start to the cut, without the overlap
ChunkIterateNoOverlap ==
    /\ cpc = "loop"
    /\ start < Len(ctext)
    /\ start \notin visited
    /\ LET end == CutEnd(ctext, chunkSize, start)
       IN /\ chunks' = PushChunk(chunks, ctext, start, end)
          /\ start' = end
          /\ cuts' = Append(cuts, [start |-> start, end |-> end])
    /\ visited' = visited \cup {start}
    /\ UNCHANGED <<storeVars, configVars, sessionVars, storeCall, ctext, cpc>>

\* one iteration of the while loop
ChunkIterate ==
    /\ cpc = "loop"
    /\ start < Len(ctext)
    /\ start \notin visited
    /\ LET end == CutEnd(ctext, chunkSize, start)
       IN /\ chunks' = PushChunk(chunks, ctext, start, end)
          /\ start' = end - chunkOverlap
          /\ cuts' = Append(cuts, [start |-> start, end |-> end])
    /\ visited' = visited \cup {start}
    /\ UNCHANGED <<storeVars, configVars, sessionVars, storeCall, ctext, cpc>>

\* the loop's test fails: chunks is returned
ChunkReturn ==
    /\ cpc = "loop"
    /\ ~(start < Len(ctext))
    /\ cpc' = "done"
    /\ UNCHANGED <<storeVars, configVars, sessionVars, storeCall, ctext,
                   start, chunks, visited, cuts>>

\* start is back at a value it had: the loop repeats for ever
ChunkDiverge ==
    /\ cpc = "loop"
    /\ start < Len(ctext)
    /\ start \in visited
    /\ cpc' = "diverged"
    /\ UNCHANGED <<storeVars, configVars, sessionVars, storeCall, ctext,
                   start, chunks, visited, cuts>>

NextChunk == ChunkEnter \/ ChunkIterate \/ ChunkReturn \/ ChunkDiverge

SpecChunk == InitChunk /\ [][NextChunk]_vars

\* C7: chunkText terminates for every text whenever 0 <= overlap < chunkSize:
\* it never enters an iteration that repeats for ever.
C7_ChunkTextTerminates ==
    (0 <= chunkOverlap /\ chunkOverlap < chunkSize) => cpc # "diverged"

\* C13: for every text, the empty text and a text of whitespace included, and
\* every valid configuration, no chunk chunkText returns is the empty string.
C13_NoEmptyChunk ==
    (0 <= chunkOverlap /\ chunkOverlap < chunkSize /\ cpc = "done")
        => \A i \in 1..Len(chunks) : chunks[i] # <<>>

\* C14: for a text longer than chunkSize and 0 <= overlap < chunkSize / 2, the
\* first range cut starts at 0, each next range starts at the end of the one
\* before less the overlap, and the ranges cut when chunkText returns cover
\* every position of the text.
C14_RangesOverlapAndCover ==
    (Len(ctext) > chunkSize /\ 0 <= chunkOverlap
        /\ 2 * chunkOverlap < chunkSize /\ cpc \in {"loop", "done", "diverged"})
    => /\ cuts # <<>> => cuts[1].start = 0
       /\ \A i \in 1..(Len(cuts) - 1) :
              cuts[i + 1].start = cuts[i].end - chunkOverlap
       /\ cpc = "done" =>
              \A p \in 0..(Len(ctext) - 1) :
                  \E i \in 1..Len(cuts) : cuts[i].start <= p /\ p < cuts[i].end

\* a text cut into three ranges or more under an overlap of 1, one of the
\* cuts snapped back to a boundary
C14_Witness ==
    /\ cpc = "done"
    /\ Len(ctext) > chunkSize
    /\ chunkOverlap = 1
    /\ 2 * chunkOverlap < chunkSize
    /\ Len(cuts) >= 3
    /\ \E i \in 1..Len(cuts) :
          cuts[i].end < cuts[i].start + chunkSize /\ cuts[i].end < Len(ctext)

\* C15: every cut lies inside its window, end <= start + chunkSize, and no
\* chunk returned is longer than chunkSize characters.
C15_ChunkWithinWindow ==
    (0 <= chunkOverlap /\ chunkOverlap < chunkSize)
    => /\ \A i \in 1..Len(cuts) : cuts[i].end <= cuts[i].start + chunkSize
       /\ cpc \in {"loop", "done"} =>
             \A i \in 1..Len(chunks) : Len(chunks[i]) <= chunkSize

-----------------------------------------------------------------------------
(* EmbeddingService.generateEmbeddings                                     *)

Range(f) == {f[i] : i \in DOMAIN f}

\* The array by arrival: the j-th embedding to arrive goes to position j.
ByArrival(arrivals, n) == [i \in 1..n |-> arrivals[i].embedding]

\* Promise.all(texts.map(...)): the array of the fulfilled values, each at the
\* position of its promise, whatever order they were fulfilled in. arrivals is
\* the sequence, in arrival order, of [index, embedding].
PromiseAll(arrivals, n) ==
    [i \in 1..n |->
        (CHOOSE a \in Range(arrivals) : a.index = i - 1).embedding]

-----------------------------------------------------------------------------
(* TextGenerator                                                           *)

\* The longest leading run of whitespace
RECURSIVE DropWs(_)
DropWs(text) ==
    IF text # <<>> /\ Head(text) \in Whitespace THEN DropWs(Tail(text)) ELSE text

\* answer.replace(/^\s*<label>\s*/i, ''): a leading label, with the whitespace
\* around it, is removed; labels are the spellings the regex accepts.
StripLabel(text, labels) ==
    LET body == DropWs(text)
    IN IF body # <<>> /\ Head(body) \in labels THEN DropWs(Tail(body)) ELSE text

\* answer.replace(/\n\s*\n/g, '\n'): a newline, whitespace and a last newline
\* become one newline.
RECURSIVE CollapseBlank(_)
CollapseBlank(text) ==
    IF text = <<>> THEN <<>>
    ELSE IF Head(text) # "\n" THEN <<Head(text)>> \o CollapseBlank(Tail(text))
    ELSE LET rest == Tail(text)
             run == Len(rest) - Len(DropWs(rest))
             nls == {j \in 1..run : rest[j] = "\n"}
         IN IF nls = {} THEN <<"\n">> \o CollapseBlank(rest)
            ELSE <<"\n">> \o CollapseBlank(SubSeq(rest, MaxOf(nls) + 1, Len(rest)))

\* TextGenerator.cleanAnswer
cleanAnswer(answer) ==
    LET a1 == StripLabel(answer, {"Answer:", "ANSWER:", "answer:"})
        a2 == StripLabel(a1, {"A:", "a:"})
        a3 == StripLabel(a2, {"Answer:", "ANSWER:", "answer:"})
    IN Trim(CollapseBlank(a3))

\* answer.replace(prompt, ''): the first echo of the prompt is removed. The
\* prompt is one piece, "PROMPT", of the gateway's text.
RemovePrompt(text) ==
    LET at == {i \in 1..Len(text) : text[i] = "PROMPT"}
    IN IF at = {} THEN text
       ELSE LET i == CHOOSE k \in at : \A j \in at : k <= j
            IN SubSeq(text, 1, i - 1) \o SubSeq(text, i + 1, Len(text))

Apology ==
    "I found relevant information in the documents, but I'm having trouble generating a specific answer right now. Please try rephrasing your question or asking about specific topics mentioned in the document."

Digit(n) == <<"0", "1", "2", "3", "4", "5", "6", "7", "8", "9">>[n + 1]

RECURSIVE NumberedLines(_, _)
NumberedLines(info, from) ==
    IF from > Len(info) THEN <<>>
    ELSE <<Digit(from), ". ">> \o info[from] \o <<"\n">>
         \o NumberedLines(info, from + 1)

RECURSIVE JoinWith(_, _)
JoinWith(strings, sep) ==
    IF strings = <<>> THEN <<>>
    ELSE IF Len(strings) = 1 THEN strings[1]
    ELSE strings[1] \o sep \o JoinWith(Tail(strings), sep)

\* TextGenerator.createFallbackAnswer. What its pattern matching finds in the
\* context is an input here: extractedInfo is extractRelevantInfo's result and
\* relevantSentences the sentences (over 10 characters once trimmed) that
\* hold a word of the question.
createFallbackAnswer(extractedInfo, relevantSentences) ==
    IF Len(extractedInfo) > 0
    THEN <<"Based on the document content:\n\n">> \o NumberedLines(extractedInfo, 1)
    ELSE IF Len(relevantSentences) > 0
    THEN LET topSentences == Slice(relevantSentences, 0, 3)
         IN JoinWith([i \in 1..Len(topSentences) |-> Trim(topSentences[i])],
                     <<".", " ">>) \o <<".">>
    ELSE <<Apology>>

\* A generateAnswer whose catch hands the gateway's error on to its caller
generateAnswerRethrows(found) ==
    [threw |-> TRUE, error |-> "generation gateway error"]

\* TextGenerator.generateAnswer, its catch block: the fallback answer is returned
generateAnswerCatch(found) ==
    [threw |-> FALSE,
     answer |-> createFallbackAnswer(found.extractedInfo, found.relevantSentences)]

\* TextGenerator.generateAnswer, the lines after the gateway's response: a
\* response without generated_text is the response object, whose substring is
\* no function, and the TypeError lands in the catch block.
generateAnswerTry(response, found) ==
    IF response.generated_text = <<>>
    THEN generateAnswerCatch(found)
    ELSE [threw |-> FALSE,
          answer |-> cleanAnswer(Trim(RemovePrompt(response.generated_text)))]

-----------------------------------------------------------------------------
(* RAGSystem and the routes of the HTTP server                             *)

\* the addDocument and the askQuestion operations that may be in flight
IngestSlots == {1}
AskSlots == {1}

\* the default of topK in askQuestion and in POST /api/ask
AskDefaultTopK == 3
\* the characters of a document shown in relevantDocuments
PreviewLen == 100

Repeat(ch, n) == [i \in 1..n |-> ch]

\* The uploaded files: a short note, and a text of 130 characters whose last
\* sentence terminator is at position 114.
Files == {"note.txt", "long.txt"}
FileContent(f) ==
    IF f = "note.txt" THEN <<"a", " ", " ", "b", ".">>
    ELSE Repeat("a", 57) \o <<" ">> \o Repeat("a", 56) \o <<".">> \o <<" ">>
         \o Repeat("b", 14)
\* path.extname(originalname).substring(1)
FileType(f) == "txt"

\* the chunk sizes and top-K values sent to POST /api/config
SizeChoices == {40, 120}
ConfigTopKs == {1}
\* the topK values sent to POST /api/ask
AskTopKs == {Absent, Given(1), Given(-1)}
Questions == {"q"}
\* what the generation gateway may answer
GenResponses ==
    {[generated_text |-> <<"PROMPT", " ", "Answer:", " ", "w", "\n", " ", "\n", "w">>],
     [generated_text |-> <<"PROMPT">>],
     [generated_text |-> <<>>]}
\* what the fallback's pattern matching may find in a context
Findings ==
    {[extractedInfo |-> <<>>, relevantSentences |-> <<>>],
     [extractedInfo |-> << <<"Key numbers: ", "Document Section: 1">> >>,
      relevantSentences |-> <<>>],
     [extractedInfo |-> <<>>,
      relevantSentences |-> << <<" ", "s1">>, <<"s2">>, <<"s3">>, <<"s4">> >>]}

NoDocumentsMsg == "No documents in the system. Please add documents first"
NoRelevantMsg == "No relevant documents found for the question"
ExtractionMsg == "extraction error"
EmbeddingMsg == "embedding gateway error"

\* RAGSystem.createContext
RECURSIVE Sections(_, _)
Sections(searchResults, from) ==
    IF from > Len(searchResults) THEN <<>>
    ELSE << <<"=== Document Section ", Digit(from), " ===\n">>
            \o searchResults[from].document \o <<"\n">> >>
         \o Sections(searchResults, from + 1)

createContext(searchResults) == JoinWith(Sections(searchResults, 1), <<"\n">>)

\* similarity.toFixed(4): the value rounded to 4 decimals, kept as the signed
\* number of ten-thousandths r, the one with
\* (2r-1)^2 den2 <= 4 10^8 num^2 < (2r+1)^2 den2.
RECURSIVE RoundSearch(_, _, _)
RoundSearch(sim, lo, hi) ==
    IF lo = hi THEN lo
    ELSE LET mid == (lo + hi + 1) \div 2
         IN IF (2 * mid - 1) * (2 * mid - 1) * sim.den2
                  <= 400000000 * sim.num * sim.num
            THEN RoundSearch(sim, mid, hi)
            ELSE RoundSearch(sim, lo, mid - 1)

toFixed4(sim) ==
    LET r == RoundSearch(sim, 0, 10000)
    IN IF sim.num < 0 THEN -r ELSE r

\* askQuestion, lines 107-111
relevantDocuments(searchResults) ==
    [i \in 1..Len(searchResults) |->
        [text |-> Slice(searchResults[i].document, 0, PreviewLen)
                    \o <<".", ".", ".">>,
         similarity |-> toFixed4(searchResults[i].similarity),
         metadata |-> searchResults[i].metadata]]

\* processDocument, the text of each file once read and cleaned
CleanedText == [f \in Files |-> cleanText(FileContent(f))]

\* processDocument, the chunks of a file under the chunker's configuration
processDocument(f, cs, ov) == chunkText(CleanedText[f], cs, ov)

\* the most chunks a file is cut into under any configuration of the model
MostChunksOf ==
    [f \in Files |->
        MaxOf({Len(processDocument(f, cs, DefaultChunkOverlap).chunks) :
                  cs \in SizeChoices \cup {DefaultChunkSize}})]
MostChunks(f) == MostChunksOf[f]

\* entries the operations in flight may still insert
RECURSIVE ReservedBy(_)
ReservedBy(slots) ==
    IF slots = {} THEN 0
    ELSE LET o == CHOOSE x \in slots : TRUE
         IN (IF ingest[o].pc \in {"reading", "embedding"}
             THEN MostChunks(ingest[o].file) ELSE 0) + ReservedBy(slots \ {o})
Reserved == ReservedBy(DOMAIN ingest)

\* most entries the session's store holds, by the uploads it runs at once
Capacity == IF Cardinality(DOMAIN ingest) > 1 THEN MaxShared ELSE MaxDocs

Init ==
    /\ documents = <<>> /\ embeddings = <<>> /\ metadata = <<>>
    /\ chunkSize = DefaultChunkSize
    /\ chunkOverlap = DefaultChunkOverlap
    /\ genTopK = Absent
    /\ ingest = [o \in IngestSlots |-> [pc |-> "idle"]]
    /\ ask = [q \in AskSlots |-> [pc |-> "idle"]]
    /\ hung = FALSE
    /\ storeCall = [op |-> "none"]
    /\ IdleChunker

\* POST /api/upload -> RAGSystem.addDocument, up to the await of the file read
PostUpload(o, f) ==
    /\ ~hung
    /\ ingest[o].pc \in {"idle", "done"}
    /\ Len(documents) + Reserved + MostChunks(f) <= Capacity
    /\ ingest' = [ingest EXCEPT ![o] =
                    [pc |-> "reading", file |-> f, fileType |-> FileType(f),
                     cleared |-> FALSE]]
    /\ UNCHANGED <<storeVars, configVars, ask, hung, storeCall, chunkVars>>

\* The file read fails (or the PDF parser does): addDocument's catch block
ExtractFails(o) ==
    /\ ~hung
    /\ ingest[o].pc = "reading"
    /\ ingest' = [ingest EXCEPT ![o] =
                    [pc |-> "done",
                     result |-> [success |-> FALSE, error |-> ExtractionMsg]]]
    /\ UNCHANGED <<storeVars, configVars, ask, hung, storeCall, chunkVars>>

\* A forEach that inserts the chunks from the last to the first
RECURSIVE InsertChunksBackwards(_, _, _, _, _)
InsertChunksBackwards(st, cks, embs, o, from) ==
    IF from > Len(cks) THEN st
    ELSE addDocument(InsertChunksBackwards(st, cks, embs, o, from + 1),
                     cks[from], embs[from],
                     [sourceFile |-> ingest[o].file,
                      fileType |-> ingest[o].fileType,
                      chunkIndex |-> from - 1,
                      totalChunks |-> Len(cks)])

\* vectorStore.addDocument for each chunk, in chunk order (lines 35-42)
RECURSIVE InsertChunks(_, _, _, _, _)
InsertChunks(st, cks, embs, o, from) ==
    IF from > Len(cks) THEN st
    ELSE InsertChunks(
            addDocument(st, cks[from], embs[from],
                        [sourceFile |-> ingest[o].file,
                         fileType |-> ingest[o].fileType,
                         chunkIndex |-> from - 1,
                         totalChunks |-> Len(cks)]),
            cks, embs, o, from + 1)

\* addDocument from the resolution of generateEmbeddings to its return (the
\* result's copy of the document's metadata is left out). As history the
\* operation notes whether another addDocument was in flight at that time.
Indexed(o, cks, arrivals) ==
    LET embs == PromiseAll(arrivals, Len(cks))
        st == InsertChunks(Store, cks, embs, o, 1)
    IN /\ documents' = st.documents
       /\ embeddings' = st.embeddings
       /\ metadata' = st.metadata
       /\ ingest' = [ingest EXCEPT ![o] =
                        [pc |-> "done", arrivals |-> arrivals,
                         cleared |-> ingest[o].cleared,
                         overlapped |->
                            \E p \in DOMAIN ingest \ {o} :
                                ingest[p].pc \in {"reading", "embedding"},
                         result |-> [success |-> TRUE,
                                     chunksAdded |-> Len(cks),
                                     totalDocuments |-> getDocumentCount(st)]]]

\* The file is read: processDocument cleans and chunks the text, and
\* generateEmbeddings issues one request per chunk. A chunkText that never
\* returns blocks the event loop for good.
ExtractDone(o) ==
    /\ ~hung
    /\ ingest[o].pc = "reading"
    /\ LET doc == processDocument(ingest[o].file, chunkSize, chunkOverlap)
       IN IF doc.diverges
          THEN /\ hung' = TRUE
               /\ UNCHANGED <<storeVars, ingest>>
          ELSE IF doc.chunks = <<>>
          THEN /\ Indexed(o, <<>>, <<>>)
               /\ UNCHANGED hung
          ELSE /\ ingest' = [ingest EXCEPT ![o] =
                              [pc |-> "embedding", file |-> ingest[o].file,
                               fileType |-> ingest[o].fileType,
                               chunks |-> doc.chunks,
                               pending |-> 0..(Len(doc.chunks) - 1),
                               arrivals |-> <<>>,
                               cleared |-> ingest[o].cleared]]
               /\ UNCHANGED <<storeVars, hung>>
    /\ UNCHANGED <<configVars, ask, storeCall, chunkVars>>

\* The gateway answers the request for chunk i; with the last answer
\* Promise.all resolves and addDocument runs to its return.
EmbeddingArrives(o, i, embedding) ==
    /\ ~hung
    /\ ingest[o].pc = "embedding"
    /\ i \in ingest[o].pending
    /\ LET arrivals == Append(ingest[o].arrivals,
                              [index |-> i, embedding |-> embedding])
       IN IF ingest[o].pending = {i}
          THEN Indexed(o, ingest[o].chunks, arrivals)
          ELSE /\ ingest' = [ingest EXCEPT ![o].pending = @ \ {i},
                                           ![o].arrivals = arrivals]
               /\ UNCHANGED storeVars
    /\ UNCHANGED <<configVars, ask, hung, storeCall, chunkVars>>

\* A failure after which the chunk whose embedding arrived first is inserted
EmbeddingFailsKeepsArrived(o, i) ==
    /\ ~hung
    /\ ingest[o].pc = "embedding"
    /\ i \in ingest[o].pending
    /\ LET got == ingest[o].arrivals
           st == IF got = <<>> THEN Store
                 ELSE addDocument(Store, ingest[o].chunks[got[1].index + 1],
                                  got[1].embedding,
                                  [chunkIndex |-> got[1].index])
       IN /\ documents' = st.documents
          /\ embeddings' = st.embeddings
          /\ metadata' = st.metadata
    /\ ingest' = [ingest EXCEPT ![o] =
                    [pc |-> "done", arrivals |-> ingest[o].arrivals,
                     result |-> [success |-> FALSE, error |-> EmbeddingMsg]]]
    /\ UNCHANGED <<configVars, ask, hung, storeCall, chunkVars>>

\* The gateway fails the request for chunk i: Promise.all rejects, and
\* addDocument's catch block returns the failure.
EmbeddingFails(o, i) ==
    /\ ~hung
    /\ ingest[o].pc = "embedding"
    /\ i \in ingest[o].pending
    /\ ingest' = [ingest EXCEPT ![o] =
                    [pc |-> "done", arrivals |-> ingest[o].arrivals,
                     result |-> [success |-> FALSE, error |-> EmbeddingMsg]]]
    /\ UNCHANGED <<storeVars, configVars, ask, hung, storeCall, chunkVars>>

Failure(msg) ==
    [success |-> FALSE, error |-> msg, answer |-> Absent]

\* an askQuestion that never takes its early return
NoDocumentsNever == FALSE

\* the emptiness test of askQuestion, line 70
NoDocuments == getDocumentCount(Store) = 0

\* POST /api/ask -> RAGSystem.askQuestion, up to the await of the question's
\* embedding (or to the return, on an empty index)
PostAsk(q, question, topK) ==
    /\ ~hung
    /\ ask[q].pc \in {"idle", "done"}
    /\ LET k == IF topK = Absent THEN AskDefaultTopK ELSE topK[1]
           call == [question |-> question, topK |-> k, passed |-> topK,
                    config |-> genTopK]
       IN IF NoDocuments
          THEN ask' = [ask EXCEPT ![q] =
                        [pc |-> "done", call |-> call,
                         embedCalls |-> 0, genCalls |-> 0,
                         result |-> Failure(NoDocumentsMsg)]]
          ELSE ask' = [ask EXCEPT ![q] =
                        [pc |-> "embedding", call |-> call,
                         embedCalls |-> 1, genCalls |-> 0]]
    /\ UNCHANGED <<storeVars, configVars, ingest, hung, storeCall, chunkVars>>

\* The gateway fails the question's embedding: askQuestion's catch block
AskEmbeddingFails(q) ==
    /\ ~hung
    /\ ask[q].pc = "embedding"
    /\ ask' = [ask EXCEPT ![q] =
                [pc |-> "done", call |-> ask[q].call,
                 embedCalls |-> ask[q].embedCalls, genCalls |-> ask[q].genCalls,
                 result |-> Failure(EmbeddingMsg)]]
    /\ UNCHANGED <<storeVars, configVars, ingest, hung, storeCall, chunkVars>>

\* The question's embedding arrives: search, the test for no results, the
\* context, and generateAnswer up to the await of the generation gateway.
AskEmbeddingArrives(q, embedding) ==
    /\ ~hung
    /\ ask[q].pc = "embedding"
    /\ LET found == search(Store, embedding, Given(ask[q].call.topK))
           done(result) ==
               [pc |-> "done", call |-> ask[q].call,
                questionEmbedding |-> embedding,
                embedCalls |-> ask[q].embedCalls, genCalls |-> ask[q].genCalls,
                result |-> result]
       IN IF found.threw
          THEN ask' = [ask EXCEPT ![q] = done(Failure(found.error))]
          ELSE IF Len(found.results) = 0
          THEN ask' = [ask EXCEPT ![q] = done(Failure(NoRelevantMsg))]
          ELSE ask' = [ask EXCEPT ![q] =
                        [pc |-> "generating", call |-> ask[q].call,
                         questionEmbedding |-> embedding,
                         embedCalls |-> ask[q].embedCalls, genCalls |-> 1,
                         searchResults |-> found.results,
                         context |-> createContext(found.results)]]
    /\ UNCHANGED <<storeVars, configVars, ingest, hung, storeCall, chunkVars>>

\* askQuestion from the return of generateAnswer (or its throw) to its own
Answered(q, generation, outcome) ==
    ask' = [ask EXCEPT ![q] =
              [pc |-> "done", call |-> ask[q].call,
               questionEmbedding |-> ask[q].questionEmbedding,
               embedCalls |-> ask[q].embedCalls, genCalls |-> ask[q].genCalls,
               generation |-> generation,
               result |->
                 IF outcome.threw THEN Failure(outcome.error)
                 ELSE [success |-> TRUE,
                       answer |-> outcome.answer,
                       context |-> ask[q].context,
                       relevantDocuments |->
                           relevantDocuments(ask[q].searchResults)]]]

\* The generation gateway answers
GenerationArrives(q, response, found) ==
    /\ ~hung
    /\ ask[q].pc = "generating"
    /\ Answered(q, "answered", generateAnswerTry(response, found))
    /\ UNCHANGED <<storeVars, configVars, ingest, hung, storeCall, chunkVars>>

\* The generation gateway fails
GenerationFails(q, found) ==
    /\ ~hung
    /\ ask[q].pc = "generating"
    /\ Answered(q, "failed", generateAnswerCatch(found))
    /\ UNCHANGED <<storeVars, configVars, ingest, hung, storeCall, chunkVars>>

\* DELETE /api/clear -> RAGSystem.clearSystem. (Each addDocument in flight
\* notes, as history, that a clear ran since it was called.)
DeleteClear ==
    /\ ~hung
    /\ documents' = clear.documents
    /\ embeddings' = clear.embeddings
    /\ metadata' = clear.metadata
    /\ ingest' = [o \in DOMAIN ingest |->
                    IF ingest[o].pc \in {"reading", "embedding"}
                    THEN [ingest[o] EXCEPT !.cleared = TRUE]
                    ELSE ingest[o]]
    /\ UNCHANGED <<configVars, ask, hung, storeCall, chunkVars>>

\* RAGSystem.setChunkSize(size)
setChunkSize(size) == size

\* RAGSystem.setTopK(topK): the value goes to textGenerator.topK
setTopK(topK) == Given(topK)

\* POST /api/config: each setting that is present (truthy) is applied
PostConfig(size, topK) ==
    /\ ~hung
    /\ chunkSize' = IF size # Absent /\ size[1] # 0
                    THEN setChunkSize(size[1]) ELSE chunkSize
    /\ genTopK' = IF topK # Absent /\ topK[1] # 0
                  THEN setTopK(topK[1]) ELSE genTopK
    /\ UNCHANGED <<storeVars, chunkOverlap, sessionVars, storeCall, chunkVars>>

\* The operations of the ingest path, for the files uploaded and the vectors
\* the embedding gateway answers with
Ingestion(files, vectors) ==
    \/ \E o \in DOMAIN ingest, f \in files : PostUpload(o, f)
    \/ \E o \in DOMAIN ingest : ExtractDone(o)
    \/ \E o \in DOMAIN ingest : ExtractFails(o)
    \/ \E o \in DOMAIN ingest, i \in 0..(MaxDocs - 1), e \in vectors :
            EmbeddingArrives(o, i, e)
    \/ \E o \in DOMAIN ingest, i \in 0..(MaxDocs - 1) : EmbeddingFails(o, i)

\* The operations of the query path
Asking(topKs, vectors) ==
    \/ \E q \in AskSlots, question \in Questions, topK \in topKs :
            PostAsk(q, question, topK)
    \/ \E q \in AskSlots : AskEmbeddingFails(q)
    \/ \E q \in AskSlots, e \in vectors : AskEmbeddingArrives(q, e)
    \/ \E q \in AskSlots, response \in GenResponses, found \in Findings :
            GenerationArrives(q, response, found)
    \/ \E q \in AskSlots, found \in Findings : GenerationFails(q, found)

Configuration(sizes, topKs) ==
    \E size \in {Absent} \cup {Given(c) : c \in sizes},
       topK \in {Absent} \cup {Given(k) : k \in topKs} :
            PostConfig(size, topK)

\* The session answering questions over short notes
QueryVectors == {<<1, 0>>, <<0, 1>>, <<1>>}
Next ==
    \/ Ingestion({"note.txt"}, QueryVectors)
    \/ Asking(AskTopKs, QueryVectors)
    \/ DeleteClear
    \/ Configuration({}, ConfigTopKs)

Spec == Init /\ [][Next]_vars

\* The session ingesting documents under the configurations of the chunker
IngestVectors == {<<1, 0>>, <<0, 1>>}
NextIngest ==
    \/ Ingestion(Files, IngestVectors)
    \/ DeleteClear
    \/ Configuration(SizeChoices, {})

SpecIngest == Init /\ [][NextIngest]_vars

\* The sessions with two uploads in flight at once
OverlapSlots == {1, 2}

InitOverlap ==
    /\ documents = <<>> /\ embeddings = <<>> /\ metadata = <<>>
    /\ chunkSize = DefaultChunkSize
    /\ chunkOverlap = DefaultChunkOverlap
    /\ genTopK = Absent
    /\ ingest = [o \in OverlapSlots |-> [pc |-> "idle"]]
    /\ ask = [q \in AskSlots |-> [pc |-> "idle"]]
    /\ hung = FALSE
    /\ storeCall = [op |-> "none"]
    /\ IdleChunker

\* The query path with the defaults of POST /api/ask, the generation gateway
\* being down
Searching(vectors) ==
    \/ \E q \in AskSlots, question \in Questions : PostAsk(q, question, Absent)
    \/ \E q \in AskSlots, e \in vectors : AskEmbeddingArrives(q, e)
    \/ \E q \in AskSlots :
            GenerationFails(q, [extractedInfo |-> <<>>, relevantSentences |-> <<>>])

\* Two uploads of short notes at once, and questions asked meanwhile
SharedVectors == {<<1, 0>>, <<0, 1>>}
SharedQueries == {<<1, 0>>}
NextShared ==
    \/ Ingestion({"note.txt"}, SharedVectors)
    \/ Searching(SharedQueries)
    \/ DeleteClear

SpecShared == InitOverlap /\ [][NextShared]_vars

\* Two uploads at once of documents of one or two chunks, the chunk size being
\* set to 120 at some time. The embedding gateway answers each text with the
\* vector of that text.
OverlapSizes == {120}
EmbeddingOf(text) == <<Len(text) % 2, (Len(text) \div 2) % 2>>

NextOverlap ==
    \/ \E o \in OverlapSlots, f \in Files : PostUpload(o, f)
    \/ \E o \in OverlapSlots : ExtractDone(o)
    \/ \E o \in OverlapSlots : ExtractFails(o)
    \/ \E o \in OverlapSlots, i \in 0..(MaxDocs - 1) :
            /\ ingest[o].pc = "embedding"
            /\ i < Len(ingest[o].chunks)
            /\ EmbeddingArrives(o, i, EmbeddingOf(ingest[o].chunks[i + 1]))
    \/ \E o \in OverlapSlots, i \in 0..(MaxDocs - 1) : EmbeddingFails(o, i)
    \/ DeleteClear
    \/ Configuration(OverlapSizes, {})

SpecOverlap == InitOverlap /\ [][NextOverlap]_vars

-----------------------------------------------------------------------------
(* The query path                                                          *)

\* C1: askQuestion on an empty index returns the 'No documents' failure with
\* answer null, calls neither gateway and leaves the index as it was.
C1_EmptyIndexFailsFast ==
    [][\A q \in AskSlots :
        (/\ ask[q].pc \in {"idle", "done"}
         /\ ask'[q] # ask[q]
         /\ Len(documents) = 0)
        => /\ ask'[q].pc = "done"
           /\ ask'[q].result = [success |-> FALSE, error |-> NoDocumentsMsg,
                                answer |-> Absent]
           /\ ask'[q].embedCalls = 0
           /\ ask'[q].genCalls = 0
           /\ UNCHANGED storeVars]_vars

\* an askQuestion that returned the 'No documents' failure
C1_Witness ==
    \E q \in AskSlots :
        /\ ask[q].pc = "done"
        /\ ~ask[q].result.success
        /\ ask[q].result.error = NoDocumentsMsg
        /\ ask[q].embedCalls = 0
        /\ Len(documents) = 0

\* C2: when the generation gateway fails after a search that found results,
\* askQuestion returns success with a non-empty answer of the fallback, and
\* with the context and the relevantDocuments of the search.
C2_GenerationFailureFallsBack ==
    [][\A q \in AskSlots :
        (/\ ask[q].pc = "generating"
         /\ ask'[q].pc = "done"
         /\ ask'[q].generation = "failed")
        => /\ ask'[q].result.success
           /\ ask'[q].result.answer # <<>>
           /\ ask'[q].result.answer \in
                {createFallbackAnswer(f.extractedInfo, f.relevantSentences) :
                    f \in Findings}
           /\ ask'[q].result.context = createContext(ask[q].searchResults)
           /\ ask'[q].result.relevantDocuments
                = relevantDocuments(ask[q].searchResults)]_vars

\* a query answered with the fallback's last resort after the gateway failed
C2_Witness ==
    \E q \in AskSlots :
        /\ ask[q].pc = "done"
        /\ "generation" \in DOMAIN ask[q]
        /\ ask[q].generation = "failed"
        /\ ask[q].result.success
        /\ ask[q].result.answer = <<Apology>>
        /\ Len(ask[q].result.relevantDocuments) >= 1

\* C5: when the question's embedding differs in length from a stored
\* embedding, askQuestion returns the dimension-mismatch failure, makes no
\* call to the generation gateway and leaves the index as it was.
C5_DimensionMismatchFails ==
    [][\A q \in AskSlots :
        (/\ ask[q].pc = "embedding"
         /\ ask'[q].pc # "embedding"
         /\ "questionEmbedding" \in DOMAIN ask'[q]
         /\ \E i \in 1..Len(embeddings) :
                Len(embeddings[i]) # Len(ask'[q].questionEmbedding))
        => /\ ask'[q].pc = "done"
           /\ ask'[q].result = [success |-> FALSE, error |-> MismatchMsg,
                                answer |-> Absent]
           /\ ask'[q].genCalls = 0
           /\ UNCHANGED storeVars]_vars

\* a query that failed on the mismatch, over an index that holds an entry of
\* the question's dimension and one of another
C5_Witness ==
    \E q \in AskSlots :
        /\ ask[q].pc = "done"
        /\ ~ask[q].result.success
        /\ ask[q].result.error = MismatchMsg
        /\ ask[q].genCalls = 0
        /\ \E i, j \in 1..Len(embeddings) :
              /\ Len(embeddings[i]) = Len(ask[q].questionEmbedding)
              /\ Len(embeddings[j]) # Len(ask[q].questionEmbedding)

\* C9: after setTopK(k), an askQuestion issued without a topK of its own
\* retrieves min(k, count()) results.
C9_ConfiguredTopKUsed ==
    [][\A q \in AskSlots :
        (/\ ask[q].pc = "embedding"
         /\ ask'[q].pc = "generating"
         /\ ask[q].call.passed = Absent
         /\ ask[q].call.config # Absent)
        => Len(ask'[q].searchResults)
             = Min2(ask[q].call.config[1], Len(documents))]_vars

\* C17: askQuestion returns the 'No relevant documents found' failure only
\* when the index is empty at the time of the search, and goes on to the
\* context and the generation whenever the index is not empty then (and holds
\* embeddings of the question's dimension), for every topK.
C17_NoRelevantOnlyOnEmptyIndex ==
    [][\A q \in AskSlots :
        (/\ ask[q].pc = "embedding"
         /\ ask'[q].pc # "embedding"
         /\ "questionEmbedding" \in DOMAIN ask'[q])
        => /\ (ask'[q].pc = "done" /\ ask'[q].result.error = NoRelevantMsg)
                => Len(documents) = 0
           /\ (/\ Len(documents) > 0
               /\ \A i \in 1..Len(embeddings) :
                     Len(embeddings[i]) = Len(ask'[q].questionEmbedding))
                => ask'[q].pc = "generating"]_vars

-----------------------------------------------------------------------------
(* The ingest path                                                         *)

\* C8: in every reachable state of the session the chunk overlap is strictly
\* less than the chunk size (a configuration call that would break this is
\* rejected).
C8_OverlapBelowChunkSize == chunkOverlap < chunkSize

\* C10: whatever order the embeddings of a document's chunks arrive in, the
\* entry inserted for chunk i holds chunk i's text and the embedding the
\* gateway returned for chunk i.
C10_ChunkKeepsItsEmbedding ==
    [][\A o \in IngestSlots :
        (/\ ingest[o].pc = "embedding"
         /\ ingest'[o].pc = "done"
         /\ ingest'[o].result.success)
        => LET base == Len(documents)
               cks == ingest[o].chunks
               arrived == ingest'[o].arrivals
           IN /\ Len(documents') = base + Len(cks)
              /\ \A i \in 1..Len(cks) :
                    /\ documents'[base + i] = cks[i]
                    /\ metadata'[base + i].chunkIndex = i - 1
                    /\ \E j \in 1..Len(arrived) :
                          /\ arrived[j].index = i - 1
                          /\ arrived[j].embedding = embeddings'[base + i]]_vars

\* a document of two chunks indexed after the embedding of its second chunk
\* arrived first, the two embeddings being different
C10_Witness ==
    \E o \in IngestSlots :
        /\ ingest[o].pc = "done"
        /\ ingest[o].result.success
        /\ ingest[o].result.chunksAdded = 2
        /\ ingest[o].arrivals[1].index = 1
        /\ ingest[o].arrivals[1].embedding # ingest[o].arrivals[2].embedding
        /\ Len(documents) = 2
        /\ metadata[2].chunkIndex = 1
        /\ embeddings[2] = ingest[o].arrivals[1].embedding
        /\ embeddings[1] = ingest[o].arrivals[2].embedding

-----------------------------------------------------------------------------
(* Overlapping uploads                                                     *)

\* every entry of the store has its text, embedding and metadata, and its id
\* is no other entry's
EntriesWhole ==
    /\ Len(embeddings) = Len(documents)
    /\ Len(metadata) = Len(documents)
    /\ \A i, j \in 1..Len(metadata) :
          i # j => metadata[i].id # metadata[j].id

\* C11: under every interleaving of two addDocument operations and of the
\* searches of askQuestion, no two entries share an id, every entry is whole,
\* the entries an operation inserts hold each chunk's text with the embedding
\* returned for that chunk and the metadata of that chunk, the entries stored
\* before stay as they were, and every result of a search is a whole entry of
\* the store.
C11_OverlappingInsertsKeepEntriesWhole ==
    [][/\ EntriesWhole'
       /\ \A o \in OverlapSlots :
            (/\ ingest[o].pc = "embedding"
             /\ ingest'[o].pc = "done"
             /\ ingest'[o].result.success)
            => LET base == Len(documents)
                   cks == ingest[o].chunks
                   arrived == ingest'[o].arrivals
               IN /\ Len(documents') = base + Len(cks)
                  /\ SubSeq(documents', 1, base) = documents
                  /\ SubSeq(embeddings', 1, base) = embeddings
                  /\ SubSeq(metadata', 1, base) = metadata
                  /\ \A i \in 1..Len(cks) :
                        /\ documents'[base + i] = cks[i]
                        /\ metadata'[base + i].sourceFile = ingest[o].file
                        /\ metadata'[base + i].chunkIndex = i - 1
                        /\ \E j \in 1..Len(arrived) :
                              /\ arrived[j].index = i - 1
                              /\ arrived[j].embedding = embeddings'[base + i]
       /\ \A q \in AskSlots :
            (ask[q].pc = "embedding" /\ ask'[q].pc = "generating")
            => LET results == ask'[q].searchResults
               IN \A r \in 1..Len(results) :
                     LET at == results[r].index + 1
                         sim == cosineSimilarity(ask'[q].questionEmbedding,
                                                 embeddings[at])
                     IN /\ at \in 1..Len(documents)
                        /\ results[r].document = documents[at]
                        /\ results[r].metadata = metadata[at]
                        /\ results[r].similarity
                              = [num |-> sim.num, den2 |-> sim.den2]]_vars

\* two uploads that overlapped have both inserted, with different embeddings,
\* and a search ran when only the first of the two entries was stored
C11_Witness ==
    /\ \A o \in OverlapSlots :
          /\ ingest[o].pc = "done"
          /\ ingest[o].result.success
          /\ ~ingest[o].cleared
    /\ \E o \in OverlapSlots : ingest[o].overlapped
    /\ Len(documents) = 2
    /\ embeddings[1] # embeddings[2]
    /\ \E q \in AskSlots :
          /\ ask[q].pc = "generating"
          /\ Len(ask[q].searchResults) = 1

\* an addDocument's own step: it moves on, or one of its embeddings arrives
OwnStep(o) ==
    /\ ingest[o].pc \in {"reading", "embedding"}
    /\ \/ ingest'[o].pc # ingest[o].pc
       \/ /\ ingest[o].pc = "embedding"
          /\ ingest'[o].pending # ingest[o].pending

\* C16: an addDocument whose extraction or one of whose embedding requests
\* fails returns success:false with the error's message, and no step of it
\* changes the index: none of its chunks is inserted.
C16_FailedUploadInsertsNothing ==
    [][\A o \in OverlapSlots :
        (OwnStep(o) /\ ~(ingest'[o].pc = "done" /\ ingest'[o].result.success))
        => /\ UNCHANGED storeVars
           /\ ingest'[o].pc = "done" =>
                 /\ ingest[o].pc = "reading" =>
                       ingest'[o].result
                         = [success |-> FALSE, error |-> ExtractionMsg]
                 /\ ingest[o].pc = "embedding" =>
                       ingest'[o].result
                         = [success |-> FALSE, error |-> EmbeddingMsg]]_vars

\* an upload of two chunks failed after the embedding of one chunk had
\* arrived, the index holding the one entry it held before
C16_Witness ==
    \E o \in OverlapSlots :
        /\ ingest[o].pc = "done"
        /\ ~ingest[o].result.success
        /\ ingest[o].result.error = EmbeddingMsg
        /\ Len(ingest[o].arrivals) = 1
        /\ Len(documents) = 1
        /\ metadata[1].sourceFile = "note.txt"

\* C18: an addDocument that was suspended when clearSystem ran inserts no
\* chunk into the index afterwards.
C18_NoInsertAfterClear ==
    [][\A o \in IngestSlots :
        (/\ ingest[o].pc = "embedding"
         /\ ingest[o].cleared
         /\ ingest'[o].pc = "done")
        => UNCHANGED storeVars]_vars

\* C19: a successful addDocument inserts its chunks as one block at the end of
\* the index, in chunkIndex order 0 .. totalChunks - 1, and reports as
\* totalDocuments the count before the block plus chunksAdded, also when
\* another addDocument is in flight.
C19_BlockIsContiguous ==
    [][\A o \in OverlapSlots :
        (/\ ingest[o].pc \in {"reading", "embedding"}
         /\ ingest'[o].pc = "done"
         /\ ingest'[o].result.success)
        => LET base == Len(documents)
               n == ingest'[o].result.chunksAdded
           IN /\ Len(documents') = base + n
              /\ SubSeq(documents', 1, base) = documents
              /\ SubSeq(metadata', 1, base) = metadata
              /\ ingest'[o].result.totalDocuments = base + n
              /\ \A i \in 1..n :
                    /\ metadata'[base + i].sourceFile = ingest[o].file
                    /\ metadata'[base + i].chunkIndex = i - 1
                    /\ metadata'[base + i].totalChunks = n]_vars

\* a document of two chunks inserted as entries 2 and 3, after the note of an
\* upload that inserted while this one was in flight
C19_Witness ==
    \E o, p \in OverlapSlots :
        /\ ingest[p].pc = "done"
        /\ ingest[p].result.success
        /\ ingest[p].overlapped
        /\ ingest[p].result.totalDocuments = 1
        /\ ingest[o].pc = "done"
        /\ ingest[o].result.success
        /\ ~ingest[o].cleared
        /\ ingest[o].result.chunksAdded = 2
        /\ ingest[o].result.totalDocuments = 3
        /\ Len(documents) = 3
        /\ metadata[1].sourceFile = "note.txt"
        /\ metadata[2].chunkIndex = 0
        /\ metadata[3].chunkIndex = 1

=============================================================================
